---- MODULE Spec2Model ----
(***************************************************************************)
(* A model of the OneRiser DSP core: pa.h (maths helpers, HeapBlock,       *)
(* RingBuffer), CombFilter.h, Filter.h, Reverb.h and RiserProcessor.h.     *)
(*                                                                         *)
(* Numbers.  A float or double is a fixed-point integer counting units of  *)
(* 1/Scale (seconds, hertz, gains, samples, coefficients), with three     *)
(* IEEE specials: NaN, PInf and NInf.  Sample rates, sizes and indices are *)
(* integers.  A uint is a natural number below 2^31; where the source      *)
(* multiplies uints the product is kept modulo 2^32 as a pair of 16-bit    *)
(* halves, and a uint that wrapped below zero is kept as a negative        *)
(* integer (it stands for that integer + 2^32, which exceeds every size).  *)
(*                                                                         *)
(* Each method of the source is an operator from the object's record (and  *)
(* the arguments) to the object's record after the call; the actions of    *)
(* the specifications apply them.                                          *)
(***************************************************************************)
EXTENDS Integers, Sequences, FiniteSets, TLC

VARIABLES
    rb,       \* a stand-alone pa::dsp::RingBuffer<float>
    pushed,   \* history: the samples pushed to rb since its last prepare
    rev,      \* a stand-alone pa::dsp::Reverb
    riser,    \* the RiserProcessor
    flt,      \* a Filter shared by the control thread and the audio thread
    cmb,      \* a CombFilter shared by the control thread and the audio thread
    ctl,      \* the control thread: its position inside setParameters
    aud,      \* the audio thread: its position inside process and what it read
    call,     \* the last operation: its name, arguments and results
    lastSet,  \* history: the arguments of the most recent setParameters call
    fault,    \* TRUE once an operation dereferenced storage it does not own
    calls     \* the number of operations performed

vars == <<rb, pushed, rev, riser, flt, cmb, ctl, aud, call, lastSet, fault, calls>>

----------------------------------------------------------------------------
(* Fixed-point floats *)

\* The resolution of a modelled float: one unit is 1/Scale.
Scale == 10 * 1000

NaN == -(2^30)
NInf == 1 - 2^30
PInf == 2^30

IsNaN(x) == x = NaN
IsInf(x) == x = PInf \/ x = NInf
IsFinite(x) == ~IsNaN(x) /\ ~IsInf(x)

Abs(x) == IF x < 0 THEN -x ELSE x
Sign(x) == IF x < 0 THEN -1 ELSE IF x > 0 THEN 1 ELSE 0

\* IEEE comparisons: every comparison with NaN is false.
FLt(a, b) == ~IsNaN(a) /\ ~IsNaN(b) /\ a < b
FGt(a, b) == FLt(b, a)
FLe(a, b) == ~IsNaN(a) /\ ~IsNaN(b) /\ a <= b
FGe(a, b) == FLe(b, a)
FEq(a, b) == ~IsNaN(a) /\ ~IsNaN(b) /\ a = b
FNe(a, b) == ~FEq(a, b)

FNeg(a) == IF IsNaN(a) THEN NaN ELSE IF a = PInf THEN NInf ELSE IF a = NInf THEN PInf ELSE -a

FAdd(a, b) ==
    IF IsNaN(a) \/ IsNaN(b) THEN NaN
    ELSE IF IsInf(a) /\ IsInf(b) THEN (IF a = b THEN a ELSE NaN)
    ELSE IF IsInf(a) THEN a
    ELSE IF IsInf(b) THEN b
    ELSE a + b

FSub(a, b) == FAdd(a, FNeg(b))

\* |a| * |b| / Scale without leaving 32 bits, rounded toward zero.
MulMag(a, b) ==
    (a \div Scale) * (b \div Scale) * Scale + (a \div Scale) * (b % Scale)
    + (a % Scale) * (b \div Scale) + ((a % Scale) * (b % Scale)) \div Scale

FMul(a, b) ==
    IF IsNaN(a) \/ IsNaN(b) THEN NaN
    ELSE IF IsInf(a) \/ IsInf(b)
         THEN (IF a = 0 \/ b = 0 THEN NaN
               ELSE IF Sign(a) * Sign(b) > 0 THEN PInf ELSE NInf)
    ELSE Sign(a) * Sign(b) * MulMag(Abs(a), Abs(b))

\* |a| / |b| in units of 1/Scale without leaving 32 bits, rounded toward zero: a
\* divisor too large for the exact long division is first shortened by a digit.
RECURSIVE DivMag(_, _)
DivMag(a, b) ==
    IF b >= 200000 THEN DivMag(a \div 10, b \div 10)
    ELSE (a \div b) * Scale + ((a % b) * Scale) \div b

FDiv(a, b) ==
    IF IsNaN(a) \/ IsNaN(b) THEN NaN
    ELSE IF IsInf(a) THEN (IF IsInf(b) THEN NaN
                           ELSE IF Sign(a) * (IF b < 0 THEN -1 ELSE 1) > 0 THEN PInf ELSE NInf)
    ELSE IF IsInf(b) THEN 0
    ELSE IF b = 0 THEN (IF a = 0 THEN NaN ELSE IF a > 0 THEN PInf ELSE NInf)
    ELSE Sign(a) * Sign(b) * DivMag(Abs(a), Abs(b))

\* A float times an integer count (a sample rate, a number of samples).
FScale(a, cnt) ==
    IF IsNaN(a) THEN NaN
    ELSE IF IsInf(a) THEN (IF cnt = 0 THEN NaN ELSE a)
    ELSE a * cnt

\* static_cast<uint>(float): truncation; defined for finite x >= 0 only.
ToUInt(x) == x \div Scale

----------------------------------------------------------------------------
(* 32-bit unsigned products *)

Half == 2^16

\* (x * y) mod 2^16 for x, y < 2^16
Mul16(x, y) == ((((x \div 256) * y) % 256) * 256 + (x % 256) * y) % Half

\* a natural number below 2^31 as <<high half, low half>>
U32(a) == <<a \div Half, a % Half>>

\* (a * b) mod 2^32 for a, b given as halves
U32Mul(a, b) ==
    LET p == (a[2] \div 256) * b[2]
        q == (a[2] % 256) * b[2]
        t == (p % 256) * 256 + q
        carry == (p \div 256) + (t \div Half)
    IN  <<(carry + Mul16(a[1], b[2]) + Mul16(a[2], b[1])) % Half, t % Half>>

\* n > m, for n below 2^31 and m given as halves
U32Gt(n, m) == LET h == U32(n) IN h[1] > m[1] \/ (h[1] = m[1] /\ h[2] > m[2])

----------------------------------------------------------------------------
(* pa::math *)

clamp(val, min, max) == IF FLt(val, min) THEN min ELSE IF FGt(val, max) THEN max ELSE val

\* setClamp<uint>(&val, 0, max) with max a 32-bit product; val < 0 never holds for a uint
setClampU(val, max) == IF U32Gt(val, max) THEN max[1] * Half + max[2] ELSE val

map(val, inMin, inMax, outMin, outMax) ==
    FAdd(FMul(FDiv(FSub(val, inMin), FSub(inMax, inMin)), FSub(outMax, outMin)), outMin)

\* input - FloatType(int(input)); the inputs here are finite and >= 0
mod1(input) == input % Scale

LinearInterp(a, b, t) ==
    IF FLe(t, 0) THEN a
    ELSE IF FGe(t, Scale) THEN b
    ELSE FAdd(a, FMul(t, FSub(b, a)))

\* the catmull-rom branch (useCatmullRom = true is the only use)
CubicInterp(a, b, c, d, t) ==
    IF FLe(t, 0) THEN b
    ELSE IF FGe(t, Scale) THEN c
    ELSE LET t2 == FMul(t, t)
             h(x) == FDiv(x, 2 * Scale)
             a0 == FAdd(FAdd(FNeg(h(a)), FAdd(b, h(b))), FAdd(FNeg(FAdd(c, h(c))), h(d)))
             a1 == FAdd(FAdd(a, FNeg(FAdd(FAdd(b, b), h(b)))), FAdd(FAdd(c, c), FNeg(h(d))))
             a2 == FAdd(FNeg(h(a)), h(c))
         IN  FAdd(FAdd(FMul(FMul(a0, t), t2), FMul(a1, t2)), FAdd(FMul(a2, t), b))

ExpRounder(input, curveValue) ==
    LET x == clamp(input, -Scale, Scale)
        c0 == clamp(curveValue, -Scale, Scale)
        c == IF FGe(c0, 0) THEN map(c0, 0, Scale, 0, 20 * Scale)
             ELSE map(c0, -Scale, 0, -((95 * Scale) \div 100), 0)
    IN  IF FLt(0, x) /\ FLe(x, Scale)
        THEN FDiv(FMul(x, FAdd(Scale, c)), FAdd(FMul(c, x), Scale))
        ELSE IF FLe(-Scale, x) /\ FLe(x, 0)
        THEN FDiv(FMul(FNeg(x), FAdd(Scale, c)), FSub(FMul(c, x), Scale))
        ELSE 0

----------------------------------------------------------------------------
(* juce::SmoothedValue<float> (linear): current value, target, countdown,  *)
(* steps per ramp and step size                                            *)

SV_new(v) == [cur |-> v, tgt |-> v, cd |-> 0, steps |-> 0, step |-> 0]

\* reset(sampleRate, rampLengthInSeconds): steps = floor(ramp * rate), jump to the target
SV_reset(sv, sampleRate, ramp) ==
    [sv EXCEPT !.steps = ToUInt(FScale(ramp, sampleRate)), !.cur = sv.tgt, !.cd = 0]

SV_setTargetValue(sv, v) ==
    IF FEq(v, sv.tgt) THEN sv
    ELSE IF sv.steps <= 0 THEN [sv EXCEPT !.cur = v, !.tgt = v, !.cd = 0]
    ELSE [sv EXCEPT !.tgt = v, !.cd = sv.steps,
                    !.step = IF IsFinite(v) /\ IsFinite(sv.cur)
                             THEN Sign(v - sv.cur) * (Abs(v - sv.cur) \div sv.steps)
                             ELSE FSub(v, sv.cur)]

SV_isSmoothing(sv) == sv.cd > 0

\* getNextValue(): the smoothed value after the call
SV_advance(sv) ==
    IF ~SV_isSmoothing(sv) THEN sv
    ELSE IF sv.cd - 1 > 0 THEN [sv EXCEPT !.cd = sv.cd - 1, !.cur = FAdd(sv.cur, sv.step)]
    ELSE [sv EXCEPT !.cd = 0, !.cur = sv.tgt]

\* getNextValue(): the value returned
SV_value(sv) == IF ~SV_isSmoothing(sv) THEN sv.tgt ELSE SV_advance(sv).cur

----------------------------------------------------------------------------
(* pa::dsp::HeapBlock<float>: the allocated cells as a function from the   *)
(* indices that hold a non-zero sample; a cell outside it holds 0          *)

EmptyBlock == <<>>

\* operator[] as an rvalue: the cell read.  index >= size reads data[size],
\* one cell past the allocation, whose content is the garbage value g.
HB_read(data, size, index, g) ==
    IF index < 0 \/ index >= size THEN g
    ELSE IF index \in DOMAIN data THEN data[index] ELSE 0

\* operator[] as an lvalue, for index < size
HB_write(data, index, v) ==
    IF v = 0 THEN [j \in DOMAIN data \ {index} |-> data[j]]
    ELSE [j \in DOMAIN data \cup {index} |-> IF j = index THEN v ELSE data[j]]

----------------------------------------------------------------------------
(* pa::dsp::RingBuffer<float> *)

Interps == {"noInterp", "linearInterp", "cubicInterp"}

RB_new == [buffer |-> EmptyBlock, size |-> 0, writeIndex |-> 0, sampleRate |-> 44100,
           delaySmoothTime |-> 0, delayTime |-> SV_new(0)]

\* clear(): buffer.initialise()
RB_clear(r) == [r EXCEPT !.buffer = EmptyBlock]

\* prepare(uint newBufferSizeSamples, const uint& newSampleRate)
RB_prepare(r, newBufferSizeSamples, newSampleRate) ==
    LET n1 == setClampU(newBufferSizeSamples,
                        U32Mul(U32Mul(U32(newBufferSizeSamples), U32(newSampleRate)), U32(10)))
        n2 == setClampU(n1, U32Mul(U32(newSampleRate), U32(600)))
        r1 == IF n1 # r.size THEN [r EXCEPT !.writeIndex = 0, !.size = n2] ELSE r
        r2 == [r1 EXCEPT !.sampleRate = IF newSampleRate = 0 THEN 1 ELSE newSampleRate]
    IN  RB_clear(r2)

\* prepare(FloatType newBufferSizeSeconds, const uint& newSampleRate)
RB_prepareSeconds(r, newBufferSizeSeconds, newSampleRate) ==
    RB_prepare(r, ToUInt(FScale(newBufferSizeSeconds, newSampleRate)), newSampleRate)

\* setDelayTime(newDelayTime, smoothTime)
RB_setDelayTime(r, newDelayTime, smoothTime) ==
    LET r1 == IF FNe(smoothTime, r.delaySmoothTime)
              THEN [r EXCEPT !.delaySmoothTime = clamp(smoothTime, 0, smoothTime),
                             !.delayTime = SV_reset(r.delayTime, r.sampleRate,
                                                    clamp(smoothTime, 0, smoothTime))]
              ELSE r
        absTime == IF IsNaN(newDelayTime) THEN NaN
                   ELSE IF IsInf(newDelayTime) THEN PInf ELSE Abs(newDelayTime)
        t == clamp(absTime, 0, DivMag(r1.size, r1.sampleRate))
    IN  [r1 EXCEPT !.delayTime = SV_setTargetValue(r1.delayTime, t)]

\* getReadIndex(readOffset) with the offset counted from the cell before writeIndex
RB_getReadIndexBehind(r, readOffset) ==
    LET tmp == r.writeIndex - 1 - readOffset + r.size
    IN  IF tmp < 0 THEN tmp - r.size
        ELSE IF tmp >= r.size THEN tmp - r.size
        ELSE tmp

\* getReadIndex(readOffset)
RB_getReadIndex(r, readOffset) ==
    LET tmp == r.writeIndex - readOffset + r.size
    IN  IF tmp < 0 THEN tmp - r.size
        ELSE IF tmp >= r.size THEN tmp - r.size
        ELSE tmp

\* incrementWritePointer() wrapping one step late, at writeIndex > size
RB_incrementWritePointerLate(r) ==
    IF r.writeIndex + 1 > r.size THEN [r EXCEPT !.writeIndex = r.writeIndex + 1 - r.size]
    ELSE [r EXCEPT !.writeIndex = r.writeIndex + 1]

\* incrementWritePointer()
RB_incrementWritePointer(r) ==
    IF r.writeIndex + 1 >= r.size THEN [r EXCEPT !.writeIndex = r.writeIndex + 1 - r.size]
    ELSE [r EXCEPT !.writeIndex = r.writeIndex + 1]

\* the read offset in samples, sampleRate * delayTime.getNextValue(), as a float
RB_readOffset(r) == FScale(SV_value(r.delayTime), r.sampleRate)

\* the buffer indices one read dereferences, in the order of the source
RB_readIndices(r, interp) ==
    LET off == RB_readOffset(r)
    IN  IF interp = "linearInterp"
        THEN LET i == RB_getReadIndex(r, ToUInt(off)) IN <<i, i - 1>>
        ELSE IF interp = "cubicInterp"
        THEN LET i == RB_getReadIndex(r, ToUInt(IF FLt(off, 2 * Scale) THEN 2 * Scale ELSE off))
             IN  <<i + 1, i, i - 1, i - 2>>
        ELSE <<RB_getReadIndex(r, ToUInt(off))>>

\* a read or write of a buffer with no cells dereferences data[0] of an empty
\* (or null) allocation
RB_noStorage(r) == r.size = 0

\* getFromBuffer(interp): the value returned; g is the content of data[size]
RB_getValue(r, interp, g) ==
    LET off == RB_readOffset(r)
        ix == RB_readIndices(r, interp)
        at(i) == HB_read(r.buffer, r.size, i, g)
    IN  IF interp = "linearInterp"
        THEN LinearInterp(at(ix[1]), at(ix[2]), mod1(off))
        ELSE IF interp = "cubicInterp"
        THEN CubicInterp(at(ix[1]), at(ix[2]), at(ix[3]), at(ix[4]),
                         mod1(IF FLt(off, 2 * Scale) THEN 2 * Scale ELSE off))
        ELSE at(ix[1])

\* getFromBuffer(interp): the buffer after the call (the smoothed delay advanced)
RB_getFromBuffer(r, interp) == [r EXCEPT !.delayTime = SV_advance(r.delayTime)]

\* pushToBuffer(input), input non-null
RB_pushToBuffer(r, v) ==
    RB_incrementWritePointer([r EXCEPT !.buffer = HB_write(r.buffer, r.writeIndex, v)])

\* forceIncrementWritePointer()
RB_forceIncrementWritePointer(r) == RB_incrementWritePointer(r)

\* getAndPush(input), input non-null: pushToBuffer(input), then
\* getFromBuffer(input) with the default noInterp
RB_getAndPush(r, v) == RB_getFromBuffer(RB_pushToBuffer(r, v), "noInterp")

----------------------------------------------------------------------------
(* pa::dsp::CombFilter *)

CF_Parameters == [freq |-> 0, wet |-> 0, feedback |-> 0, interpType |-> "noInterp"]

CF_new == [delay |-> RB_new, parameters |-> CF_Parameters]

\* the default smoothTime of RingBuffer::setDelayTime, 0.1f
DefaultSmoothTime == Scale \div 10

\* prepare(newSampleRate)
CF_prepare(c, newSampleRate) ==
    [c EXCEPT !.delay = RB_setDelayTime(RB_prepare(c.delay, newSampleRate, newSampleRate),
                                        0, DefaultSmoothTime)]

\* setParameters(), first statement: p = newParams
CF_assign(c, newParams) == [c EXCEPT !.parameters = newParams]

\* setParameters(), second statement: setClamp(&p.feedback, 0, 1)
CF_clampFeedback(c) == [c EXCEPT !.parameters.feedback = clamp(c.parameters.feedback, 0, Scale)]

\* setParameters(), third statement, growing the delay buffer by one cell
CF_setDelayRealloc(c, freqOffset) ==
    [c EXCEPT !.delay = [RB_setDelayTime(c.delay,
                                         FDiv(Scale, FAdd(c.parameters.freq, freqOffset)),
                                         (3 * Scale) \div 100)
                            EXCEPT !.size = c.delay.size + 1]]

\* setParameters(), third statement: delay.setDelayTime(1 / (p.freq + freqOffset), 0.03f)
CF_setDelay(c, freqOffset) ==
    [c EXCEPT !.delay = RB_setDelayTime(c.delay,
                                        FDiv(Scale, FAdd(c.parameters.freq, freqOffset)),
                                        (3 * Scale) \div 100)]

\* setParameters(newParams, freqOffset)
CF_setParameters(c, newParams, freqOffset) ==
    CF_setDelay(CF_clampFeedback(CF_assign(c, newParams)), freqOffset)

\* getDelay(): the interpolation the read uses
CF_interp(c) == IF c.parameters.interpType \in {"linearInterp", "cubicInterp"}
                THEN c.parameters.interpType ELSE "noInterp"

\* process(input): the delayed sample read
CF_delayed(c, g) == RB_getValue(c.delay, CF_interp(c), g)

\* process(input): the value returned
CF_output(c, input, g) == FAdd(input, FMul(CF_delayed(c, g), c.parameters.wet))

\* process(input) feeding the buffer with the wet gain in place of the feedback
CF_processWetFeedback(c, input, g) ==
    [c EXCEPT !.delay = RB_pushToBuffer(RB_getFromBuffer(c.delay, CF_interp(c)),
                            FAdd(input, FMul(CF_delayed(c, g), c.parameters.wet)))]

\* process(input): the filter after the call
CF_process(c, input, g) ==
    [c EXCEPT !.delay = RB_pushToBuffer(RB_getFromBuffer(c.delay, CF_interp(c)),
                            FAdd(input, FMul(CF_delayed(c, g), c.parameters.feedback)))]

\* process(input) reads and writes the delay buffer: no storage, no defined behaviour
CF_faults(c) == RB_noStorage(c.delay)

----------------------------------------------------------------------------
(* pa::math::FastTan and pa::dsp::Filter *)

Pi == 31416
HalfPi == 15708

\* std::fmod(a, b) for b > 0: the sign of a, and NaN for an infinite a
FMod(a, b) == IF ~IsFinite(a) THEN NaN ELSE Sign(a) * (Abs(a) % b)

\* WrapPi(input, useHalfPi = true)
WrapHalfPi(input) == FSub(FMod(FSub(input, HalfPi), Pi), HalfPi)

\* The two polynomials of FastTan are evaluated in units of 1/100.
FastTan(input) ==
    LET x == WrapHalfPi(input)
        x2 == FMul(x, x)
        num == FMul(x, -13513500 + FMul(x2, 1732500 + FMul(x2, -37800 + x2 \div 100)))
        den == -13513500 + FMul(x2, 6237000 + FMul(x2, -315000 + (28 * x2) \div 100))
    IN  IF IsNaN(x) THEN NaN
        ELSE FDiv(Sign(num) * (Abs(num) \div 1000), Sign(den) * (Abs(den) \div 1000))

F_Parameters == [type |-> "lowpass", cutoff |-> 500 * Scale, q |-> 7071, enabled |-> TRUE]

F_new == [parameters |-> F_Parameters, sampleRate |-> 0,
          a0 |-> Scale, a1 |-> 0, a2 |-> 0, b1 |-> 0, b2 |-> 0, dly1 |-> 0, dly2 |-> 0,
          k |-> 0, k2 |-> 0, n |-> 0,
          prevQ |-> 0, prevCutoff |-> 0, prevSampleRate |-> 0]

\* prepare(newSampleRate)
F_prepare(f, newSampleRate) == [f EXCEPT !.sampleRate = newSampleRate]

\* p.cutoff / sampleRate: a double divided by a uint
F_cutoffOverRate(f) ==
    IF f.sampleRate = 0 THEN FDiv(f.parameters.cutoff, 0)
    ELSE FDiv(f.parameters.cutoff, f.sampleRate * Scale)

\* setCoefficients(), first block: k and k2
F_setK(f) ==
    IF FNe(f.parameters.cutoff, f.prevCutoff) \/ f.sampleRate # f.prevSampleRate
    THEN LET k == FastTan(FMul(Pi, F_cutoffOverRate(f)))
         IN  [f EXCEPT !.k = k, !.k2 = FMul(k, k),
                       !.prevCutoff = f.parameters.cutoff, !.prevSampleRate = f.sampleRate]
    ELSE f

\* setCoefficients(), second block, recomputing n on every call
F_setNAlways(f) ==
    [f EXCEPT !.n = FDiv(Scale, FAdd(FAdd(Scale, FDiv(f.k, f.parameters.q)), f.k2)),
              !.prevQ = f.parameters.q]

\* setCoefficients(), second block: n
F_setN(f) ==
    IF FNe(f.parameters.q, f.prevQ)
    THEN [f EXCEPT !.n = FDiv(Scale, FAdd(FAdd(Scale, FDiv(f.k, f.parameters.q)), f.k2)),
                   !.prevQ = f.parameters.q]
    ELSE f

\* setCoefficients(), the switch, one assignment at a time
F_setA0(f) ==
    [f EXCEPT !.a0 = IF f.parameters.type = "lowpass" THEN FMul(f.k2, f.n) ELSE f.n]

F_setA1(f) ==
    [f EXCEPT !.a1 = IF f.parameters.type = "lowpass" THEN FMul(2 * Scale, f.a0)
                     ELSE FMul(-2 * Scale, f.a0)]

F_setA2(f) == [f EXCEPT !.a2 = f.a0]

F_setB1(f) == [f EXCEPT !.b1 = FMul(FMul(2 * Scale, FSub(f.k2, Scale)), f.n)]

F_setB2(f) ==
    [f EXCEPT !.b2 = FMul(FAdd(FSub(Scale, FDiv(f.k, f.parameters.q)), f.k2), f.n)]

\* setCoefficients(), the switch: a0, a1, a2, b1, b2
F_setA(f) == F_setB2(F_setB1(F_setA2(F_setA1(F_setA0(f)))))

F_setCoefficients(f) == F_setA(F_setN(F_setK(f)))

\* setParameters(), first statement: parameters = newParameters
F_assign(f, newParameters) == [f EXCEPT !.parameters = newParameters]

\* setParameters(newParameters)
F_setParameters(f, newParameters) ==
    IF ~newParameters.enabled THEN F_assign(f, newParameters)
    ELSE F_setCoefficients(F_assign(f, newParameters))

\* process(input) reads *input on every path, the early return of the guard
\* included: a null input is dereferenced
F_faults(input) == input.null

\* process(input), input non-null: the value returned
F_output(f, input) ==
    IF ~f.parameters.enabled THEN input ELSE FAdd(FMul(input, f.a0), f.dly1)

\* process(input), input non-null: the filter after the call
F_process(f, input) ==
    IF ~f.parameters.enabled THEN f
    ELSE LET out == F_output(f, input)
         IN  [f EXCEPT !.dly1 = FSub(FAdd(FMul(input, f.a1), f.dly2), FMul(f.b1, out)),
                       !.dly2 = FSub(FMul(input, f.a2), FMul(f.b2, out))]

----------------------------------------------------------------------------
(* pa::dsp::Reverb *)

Channels == 0 .. 1
EarlyIdx == 0 .. 7
LateIdx == 0 .. 3

\* Reverb::Comb::clear()
Comb_clear(c) == [c EXCEPT !.previousValue = 0, !.buffer = RB_clear(c.buffer)]

\* Reverb::Comb::prepare(newSampleRate)
Comb_prepare(c, newSampleRate) ==
    Comb_clear([c EXCEPT !.buffer = RB_prepareSeconds(c.buffer, Scale \div 10, newSampleRate)])

\* Reverb::Comb::Comb()
Comb_new == Comb_prepare([buffer |-> RB_new, previousValue |-> 0], 44100)

\* Reverb::Comb::SetTime(delayTimeInSeconds)
Comb_SetTime(c, delayTimeInSeconds) ==
    [c EXCEPT !.buffer = RB_setDelayTime(c.buffer, clamp(delayTimeInSeconds, Scale \div 1000, Scale),
                                         DefaultSmoothTime)]

\* the delayed sample both process functions read first
Comb_delayLine(c, g) == RB_getValue(c.buffer, "noInterp", g)

\* Reverb::Comb::processEarly(input, damp, feed): the comb after the call
Comb_processEarly(c, input, damp, feed, g) ==
    LET delayLine == Comb_delayLine(c, g)
        prev == FAdd(delayLine, FMul(damp, FSub(c.previousValue, delayLine)))
    IN  [c EXCEPT !.previousValue = prev,
                  !.buffer = RB_pushToBuffer(RB_getFromBuffer(c.buffer, "noInterp"),
                                             FAdd(input, FMul(prev, feed)))]

\* Reverb::Comb::processLate(input): the comb after the call
Comb_processLate(c, input, g) ==
    [c EXCEPT !.buffer = RB_pushToBuffer(RB_getFromBuffer(c.buffer, "noInterp"),
                                         FAdd(input, FMul(Comb_delayLine(c, g), Scale \div 2)))]

\* Reverb::Comb::processLate(input): the value returned
Comb_lateOutput(c, input, g) == FSub(Comb_delayLine(c, g), input)

Rev_Parameters == [damping |-> 0, size |-> 0, mix |-> 0, width |-> 0, spread |-> 0,
                   numEarlyCombs |-> 8, numLateCombs |-> 4]

\* setCombs()
Rev_setCombs(r) ==
    LET spreadAmount == FDiv(clamp(r.parameters.spread, 0, Scale \div 100), 2 * Scale)
        spread(ch) == IF ch = 0 THEN spreadAmount ELSE FNeg(spreadAmount)
    IN  [r EXCEPT
           !.earlyCombs = [ch \in Channels |-> [i \in EarlyIdx |->
               Comb_SetTime(r.earlyCombs[ch][i], FAdd(r.earlyCombTimes[i], spread(ch)))]],
           !.lateCombs = [ch \in Channels |-> [i \in LateIdx |->
               Comb_SetTime(r.lateCombs[ch][i], FAdd(r.lateCombTimes[i], spread(ch)))]]]

\* prepareCombs()
Rev_prepareCombs(r) ==
    [r EXCEPT
       !.earlyCombs = [ch \in Channels |-> [i \in EarlyIdx |-> Comb_prepare(r.earlyCombs[ch][i], r.sampleRate)]],
       !.lateCombs = [ch \in Channels |-> [i \in LateIdx |-> Comb_prepare(r.lateCombs[ch][i], r.sampleRate)]]]

\* clear()
Rev_clear(r) ==
    [r EXCEPT
       !.earlyCombs = [ch \in Channels |-> [i \in EarlyIdx |-> Comb_clear(r.earlyCombs[ch][i])]],
       !.lateCombs = [ch \in Channels |-> [i \in LateIdx |-> Comb_clear(r.lateCombs[ch][i])]]]

\* the ramp length of the reverb's smoothed gains, 0.05 s
RevRamp == (5 * Scale) \div 100

\* prepare(newSampleRate)
Rev_prepare(r, newSampleRate) ==
    LET r1 == IF newSampleRate # r.sampleRate /\ newSampleRate # 0
              THEN [r EXCEPT !.sampleRate = newSampleRate] ELSE r
        r2 == Rev_prepareCombs(r1)
        r3 == [r2 EXCEPT !.dampingSmooth = SV_reset(r2.dampingSmooth, r2.sampleRate, RevRamp),
                         !.feedbackSmooth = SV_reset(r2.feedbackSmooth, r2.sampleRate, RevRamp),
                         !.drySmooth = SV_reset(r2.drySmooth, r2.sampleRate, RevRamp),
                         !.wet1 = SV_reset(r2.wet1, r2.sampleRate, RevRamp),
                         !.wet2 = SV_reset(r2.wet2, r2.sampleRate, RevRamp)]
    IN  Rev_clear(r3)

\* Reverb::Reverb()
Rev_new ==
    LET times(t) == [i \in 0 .. (Len(t) - 1) |-> t[i + 1]]
        r0 == [sampleRate |-> 44100, preGain |-> 0, wet |-> 0, dry |-> 0,
               dampingSmooth |-> SV_new(0), feedbackSmooth |-> SV_new(0),
               wet1 |-> SV_new(0), wet2 |-> SV_new(0), drySmooth |-> SV_new(0),
               parameters |-> Rev_Parameters,
               earlyCombs |-> [ch \in Channels |-> [i \in EarlyIdx |-> Comb_new]],
               lateCombs |-> [ch \in Channels |-> [i \in LateIdx |-> Comb_new]],
               earlyCombTimes |-> times(<<600, 400, 200, 100, 520, 360, 420, 240>>),
               lateCombTimes |-> times(<<110, 540, 330, 230>>)]
    IN  Rev_prepare(Rev_setCombs(r0), 44100)

\* setMixValues()
Rev_setMixValues(r) ==
    LET mixAmount == clamp(r.parameters.mix, 0, Scale)
    IN  [r EXCEPT !.dry = FSub(Scale, mixAmount),
                  !.wet = FMul(ExpRounder(mixAmount, (8 * Scale) \div 10), (155 * Scale) \div 100)]

\* setDamping()
Rev_setDamping(r) ==
    [r EXCEPT !.dampingSmooth = SV_setTargetValue(r.dampingSmooth,
                                    FMul(r.parameters.damping, (9 * Scale) \div 10)),
              !.feedbackSmooth = SV_setTargetValue(r.feedbackSmooth,
                                    FAdd(FMul(r.parameters.size, (78 * Scale) \div 100),
                                         (2 * Scale) \div 10))]

\* static constexpr float wetGainScale = 1.2f
WetGainScale == (12 * Scale) \div 10

\* setParameters(newParameters)
Rev_setParameters(r, newParameters) ==
    LET old == r.parameters
        r1 == [r EXCEPT !.parameters = newParameters]
        r2 == IF FNe(newParameters.mix, old.mix) THEN Rev_setMixValues(r1) ELSE r1
        r3 == [r2 EXCEPT
                 !.preGain = FDiv(Scale \div 10,
                                  (newParameters.numEarlyCombs + newParameters.numLateCombs) * Scale),
                 !.drySmooth = SV_setTargetValue(r2.drySmooth, r2.dry),
                 !.wet1 = SV_setTargetValue(r2.wet1,
                              FMul(FMul(WetGainScale, r2.wet), FAdd(Scale, newParameters.width))),
                 !.wet2 = SV_setTargetValue(r2.wet2,
                              FMul(FMul(WetGainScale, r2.wet), FSub(Scale, newParameters.width)))]
        r4 == IF FNe(newParameters.spread, old.spread) THEN Rev_setCombs(r3) ELSE r3
    IN  IF FNe(newParameters.damping, old.damping) \/ FNe(newParameters.size, old.size)
        THEN Rev_setDamping(r4) ELSE r4

\* setEarlyCombTime(newDelayTime, combIndex)
Rev_setEarlyCombTime(r, newDelayTime, combIndex) ==
    Rev_setCombs([r EXCEPT !.earlyCombTimes[IF combIndex > 7 THEN 7 ELSE combIndex] = newDelayTime])

\* setLateCombTime(newDelayTime, combIndex)
Rev_setLateCombTime(r, newDelayTime, combIndex) ==
    Rev_setCombs([r EXCEPT !.lateCombTimes[IF combIndex > 3 THEN 3 ELSE combIndex] = newDelayTime])

\* process(): the loop over the early combs, from comb j on; acc holds the combs
\* and both running sums
RECURSIVE Rev_earlyLoop(_, _, _, _, _, _, _)
Rev_earlyLoop(acc, input, damp, feed, g, j, numEarlyCombs) ==
    IF j >= numEarlyCombs THEN acc
    ELSE Rev_earlyLoop(
           [combs |-> [ch \in Channels |-> [acc.combs[ch] EXCEPT
                          ![j] = Comb_processEarly(acc.combs[ch][j], input, damp, feed, g)]],
            outL |-> FAdd(acc.outL, Comb_delayLine(acc.combs[0][j], g)),
            outR |-> FAdd(acc.outR, Comb_delayLine(acc.combs[1][j], g))],
           input, damp, feed, g, j + 1, numEarlyCombs)

\* process(): the loop over the late combs, from comb j on
RECURSIVE Rev_lateLoop(_, _, _, _)
Rev_lateLoop(acc, g, j, numLateCombs) ==
    IF j >= numLateCombs THEN acc
    ELSE Rev_lateLoop(
           [combs |-> [ch \in Channels |-> [acc.combs[ch] EXCEPT
                          ![j] = Comb_processLate(acc.combs[ch][j],
                                                  IF ch = 0 THEN acc.outL ELSE acc.outR, g)]],
            outL |-> Comb_lateOutput(acc.combs[0][j], acc.outL, g),
            outR |-> Comb_lateOutput(acc.combs[1][j], acc.outR, g)],
           g, j + 1, numLateCombs)

\* process() indexes combs j < numEarlyCombs and j < numLateCombs of vectors that
\* hold 8 and 4, and every comb reads and writes its buffer
Rev_faults(r) ==
    \/ r.parameters.numEarlyCombs > 8
    \/ r.parameters.numLateCombs > 4
    \/ \E ch \in Channels : \E i \in EarlyIdx :
          i < r.parameters.numEarlyCombs /\ RB_noStorage(r.earlyCombs[ch][i].buffer)
    \/ \E ch \in Channels : \E i \in LateIdx :
          i < r.parameters.numLateCombs /\ RB_noStorage(r.lateCombs[ch][i].buffer)

\* process(), lines 137-138, with the dry gain applied to the sum of both
\* channels
Rev_mixMonoDry(r, left, right, early, late) ==
    [rev |-> [r EXCEPT !.dampingSmooth = SV_advance(r.dampingSmooth),
                       !.feedbackSmooth = SV_advance(r.feedbackSmooth),
                       !.earlyCombs = early.combs,
                       !.lateCombs = late.combs,
                       !.drySmooth = SV_advance(r.drySmooth),
                       !.wet1 = SV_advance(r.wet1),
                       !.wet2 = SV_advance(r.wet2)],
     left |-> FAdd(FAdd(FMul(SV_value(r.drySmooth), FAdd(left, right)),
                        FMul(SV_value(r.wet1), late.outL)),
                   FMul(SV_value(r.wet2), late.outR)),
     right |-> FAdd(FAdd(FMul(SV_value(r.drySmooth), FAdd(left, right)),
                         FMul(SV_value(r.wet1), late.outR)),
                    FMul(SV_value(r.wet2), late.outL))]

\* process(), lines 132-138: the gains are read and both outputs written; early
\* and late hold the combs and sums the two loops left
Rev_mix(r, left, right, early, late) ==
    [rev |-> [r EXCEPT !.dampingSmooth = SV_advance(r.dampingSmooth),
                       !.feedbackSmooth = SV_advance(r.feedbackSmooth),
                       !.earlyCombs = early.combs,
                       !.lateCombs = late.combs,
                       !.drySmooth = SV_advance(r.drySmooth),
                       !.wet1 = SV_advance(r.wet1),
                       !.wet2 = SV_advance(r.wet2)],
     left |-> FAdd(FAdd(FMul(SV_value(r.drySmooth), left), FMul(SV_value(r.wet1), late.outL)),
                   FMul(SV_value(r.wet2), late.outR)),
     right |-> FAdd(FAdd(FMul(SV_value(r.drySmooth), right), FMul(SV_value(r.wet1), late.outR)),
                    FMul(SV_value(r.wet2), late.outL))]

\* process(), lines 126-138: the late combs in series, then the mix
Rev_late(r, left, right, g, early) ==
    Rev_mix(r, left, right, early,
            Rev_lateLoop([combs |-> r.lateCombs, outL |-> early.outL, outR |-> early.outR],
                         g, 0, r.parameters.numLateCombs))

\* process(left, right), both non-null: the reverb after the call and both outputs
Rev_process(r, left, right, g) ==
    Rev_late(r, left, right, g,
             Rev_earlyLoop([combs |-> r.earlyCombs, outL |-> 0, outR |-> 0],
                           FMul(FAdd(left, right), r.preGain),
                           SV_value(r.dampingSmooth), SV_value(r.feedbackSmooth),
                           g, 0, r.parameters.numEarlyCombs))

----------------------------------------------------------------------------
(* RiserProcessor *)

\* a sample pointer: null, or the array it points to
Null == [null |-> TRUE, data |-> <<>>]
Ptr(block) == [null |-> FALSE, data |-> block]

\* mapValue(val, min, max)
mapValue(val, min, max) == map(val, 0, Scale, min, max)

\* the constructor's comb times
R_earlyTimes == <<53, 134, 229, 300, 92, 158, 397, 184>>
R_lateTimes == <<111, 175, 76, 152>>

\* the constructor's loop over the comb times, from comb i on
RECURSIVE R_setTimes(_, _)
R_setTimes(r, i) ==
    IF i >= 8 THEN r
    ELSE LET r1 == Rev_setEarlyCombTime(r, R_earlyTimes[i + 1], i)
         IN  R_setTimes(IF i < 4 THEN Rev_setLateCombTime(r1, R_lateTimes[i + 1], i) ELSE r1, i + 1)

\* RiserProcessor::RiserProcessor() and the member initialisers
R_new ==
    [masterAmount |-> 0, reverbAmount |-> (65 * Scale) \div 100, filterAmount |-> Scale,
     flangerAmount |-> (7 * Scale) \div 10,
     flanger |-> [i \in Channels |-> CF_new],
     lowpass |-> [i \in Channels |-> F_new],
     highpass |-> [i \in Channels |-> F_new],
     reverb |-> R_setTimes(Rev_new, 0),
     flangerParams |-> [freq |-> 3000 * Scale, wet |-> 0, feedback |-> Scale \div 2,
                        interpType |-> "linearInterp"],
     lowpassParams |-> [type |-> "lowpass", cutoff |-> 20000 * Scale, q |-> Scale \div 2,
                        enabled |-> TRUE],
     highpassParams |-> [type |-> "highpass", cutoff |-> 10 * Scale, q |-> 7071,
                         enabled |-> TRUE],
     reverbParams |-> [damping |-> (6 * Scale) \div 10, size |-> (2 * Scale) \div 10, mix |-> 0,
                       width |-> Scale, spread |-> (65 * Scale) \div 10,
                       numEarlyCombs |-> 8, numLateCombs |-> 4]]

\* calculateValues() with the reverb size mapped from the size it mapped last
\* time instead of from reverbAmount
R_mapValuesFromSize(z) ==
    [z EXCEPT
       !.flangerParams.wet = mapValue(ExpRounder(z.flangerAmount, (3 * Scale) \div 10), 0, (75 * Scale) \div 100),
       !.flangerParams.freq = mapValue(z.flangerAmount, 20 * Scale, 280 * Scale),
       !.flangerParams.feedback = mapValue(z.flangerAmount, 0, (55 * Scale) \div 100),
       !.lowpassParams.cutoff = mapValue(ExpRounder(z.filterAmount, (3 * Scale) \div 10), 20000 * Scale, 4000 * Scale),
       !.lowpassParams.q = mapValue(ExpRounder(z.filterAmount, -((6 * Scale) \div 10)), Scale \div 2, (85 * Scale) \div 100),
       !.highpassParams.cutoff = mapValue(ExpRounder(z.filterAmount, -((3 * Scale) \div 10)), 10 * Scale, 200 * Scale),
       !.highpassParams.q = mapValue(ExpRounder(z.filterAmount, -(Scale \div 2)), 7071, Scale),
       !.reverbParams.mix = mapValue(z.reverbAmount, 0, (75 * Scale) \div 100),
       !.reverbParams.size = mapValue(z.reverbParams.size, Scale \div 100, (45 * Scale) \div 100),
       !.reverbParams.width = mapValue(z.reverbAmount, Scale, (6 * Scale) \div 10),
       !.reverbParams.spread = mapValue(ExpRounder(z.reverbAmount, (3 * Scale) \div 10), Scale \div 2, (15 * Scale) \div 10)]

\* calculateValues(), the mappings
R_mapValues(z) ==
    [z EXCEPT
       !.flangerParams.wet = mapValue(ExpRounder(z.flangerAmount, (3 * Scale) \div 10), 0, (75 * Scale) \div 100),
       !.flangerParams.freq = mapValue(z.flangerAmount, 20 * Scale, 280 * Scale),
       !.flangerParams.feedback = mapValue(z.flangerAmount, 0, (55 * Scale) \div 100),
       !.lowpassParams.cutoff = mapValue(ExpRounder(z.filterAmount, (3 * Scale) \div 10), 20000 * Scale, 4000 * Scale),
       !.lowpassParams.q = mapValue(ExpRounder(z.filterAmount, -((6 * Scale) \div 10)), Scale \div 2, (85 * Scale) \div 100),
       !.highpassParams.cutoff = mapValue(ExpRounder(z.filterAmount, -((3 * Scale) \div 10)), 10 * Scale, 200 * Scale),
       !.highpassParams.q = mapValue(ExpRounder(z.filterAmount, -(Scale \div 2)), 7071, Scale),
       !.reverbParams.mix = mapValue(z.reverbAmount, 0, (75 * Scale) \div 100),
       !.reverbParams.size = mapValue(z.reverbAmount, Scale \div 100, (45 * Scale) \div 100),
       !.reverbParams.width = mapValue(z.reverbAmount, Scale, (6 * Scale) \div 10),
       !.reverbParams.spread = mapValue(ExpRounder(z.reverbAmount, (3 * Scale) \div 10), Scale \div 2, (15 * Scale) \div 10)]

\* calculateValues(), the second half: the parameter objects are set
R_pushValues(z) ==
    [z EXCEPT
       !.flanger = [i \in Channels |->
           CF_setParameters(z.flanger[i], z.flangerParams,
                            IF i = 0 THEN 0
                            ELSE FMul(7 * Scale, ExpRounder(z.flangerAmount, -((4 * Scale) \div 10))))],
       !.lowpass = [i \in Channels |-> F_setParameters(z.lowpass[i], z.lowpassParams)],
       !.highpass = [i \in Channels |-> F_setParameters(z.highpass[i], z.highpassParams)],
       !.reverb = Rev_setParameters(z.reverb, z.reverbParams)]

\* calculateValues()
R_calculateValues(z) == R_pushValues(R_mapValues(z))

\* prepare(sampleRate)
R_prepare(z, sampleRate) ==
    R_calculateValues(
      [z EXCEPT !.reverb = Rev_prepare(z.reverb, sampleRate),
                !.flanger = [i \in Channels |-> CF_prepare(z.flanger[i], sampleRate)],
                !.lowpass = [i \in Channels |-> F_prepare(z.lowpass[i], sampleRate)],
                !.highpass = [i \in Channels |-> F_prepare(z.highpass[i], sampleRate)]])

\* setParameters() with the master amount stored as passed, not clamped
R_setParametersRawMaster(z, newDoublerAmount, newFilterAmount, newReverbAmount, newMasterAmount) ==
    LET masterAmount == newMasterAmount
    IN  R_calculateValues(
          [z EXCEPT !.reverbAmount = FMul(clamp(newReverbAmount, 0, Scale), masterAmount),
                    !.filterAmount = FMul(clamp(newFilterAmount, 0, Scale), masterAmount),
                    !.flangerAmount = FMul(clamp(newDoublerAmount, 0, Scale), masterAmount),
                    !.masterAmount = masterAmount])

\* setParameters(newDoublerAmount, newFilterAmount, newReverbAmount, newMasterAmount)
R_setParameters(z, newDoublerAmount, newFilterAmount, newReverbAmount, newMasterAmount) ==
    LET masterAmount == clamp(newMasterAmount, 0, Scale)
    IN  R_calculateValues(
          [z EXCEPT !.reverbAmount = FMul(clamp(newReverbAmount, 0, Scale), masterAmount),
                    !.filterAmount = FMul(clamp(newFilterAmount, 0, Scale), masterAmount),
                    !.flangerAmount = FMul(clamp(newDoublerAmount, 0, Scale), masterAmount),
                    !.masterAmount = masterAmount])

\* the hard clip of process(), 1.2f
Ceil == (12 * Scale) \div 10

\* process(): whether the body of the loop dereferences storage that is not there
R_faults(z) == CF_faults(z.flanger[0]) \/ CF_faults(z.flanger[1]) \/ Rev_faults(z.reverb)

\* process(), lines 96-98: the clip; rv holds the reverb and both of its outputs
R_clip(z, rv) ==
    [z |-> [z EXCEPT !.reverb = rv.rev],
     left |-> clamp(rv.left, -Ceil, Ceil),
     right |-> clamp(rv.right, -Ceil, Ceil)]

\* process(), lines 90-98: the highpass filters, the reverb and the clip
R_highpass(z, lL, lR, g) ==
    R_clip([z EXCEPT !.highpass = [i \in Channels |->
                         F_process(z.highpass[i], IF i = 0 THEN lL ELSE lR)]],
           Rev_process(z.reverb, F_output(z.highpass[0], lL), F_output(z.highpass[1], lR), g))

\* process(), lines 86-98: the lowpass filters and what follows
R_lowpass(z, fL, fR, g) ==
    R_highpass([z EXCEPT !.lowpass = [i \in Channels |->
                             F_process(z.lowpass[i], IF i = 0 THEN fL ELSE fR)]],
               F_output(z.lowpass[0], fL), F_output(z.lowpass[1], fR), g)

\* process(): the body of the loop for one sample pair, the comb filters first;
\* the processor after it and both samples written
R_sample(z, inL, inR, g) ==
    R_lowpass([z EXCEPT !.flanger = [i \in Channels |->
                            CF_process(z.flanger[i], IF i = 0 THEN inL ELSE inR, g)]],
              CF_output(z.flanger[0], inL, g), CF_output(z.flanger[1], inR, g), g)

\* process(): sample i of both arrays is overwritten with the loop body's result
R_store(st, i, one) ==
    [z |-> one.z, left |-> [st.left EXCEPT ![i] = one.left],
     right |-> [st.right EXCEPT ![i] = one.right], fault |-> FALSE]

\* process(): the loop, from sample i on (1-based here); st holds the processor,
\* both arrays and whether a sample faulted
RECURSIVE R_loop(_, _, _, _)
R_loop(st, i, numSamples, g) ==
    IF i > numSamples \/ st.fault THEN st
    ELSE IF R_faults(st.z) THEN [st EXCEPT !.fault = TRUE]
    ELSE R_loop(R_store(st, i, R_sample(st.z, st.left[i], st.right[i], g)),
                i + 1, numSamples, g)

\* process() with the guard on numSamples only: a null array is dereferenced
R_processNullUnchecked(z, left, right, numSamples, g) ==
    IF numSamples <= 0
    THEN [z |-> z, left |-> left.data, right |-> right.data, fault |-> FALSE]
    ELSE IF left.null \/ right.null
    THEN [z |-> z, left |-> left.data, right |-> right.data, fault |-> TRUE]
    ELSE R_loop([z |-> z, left |-> left.data, right |-> right.data, fault |-> FALSE],
                1, numSamples, g)

\* process(left, right, numSamples)
R_process(z, left, right, numSamples, g) ==
    IF left.null \/ right.null \/ numSamples <= 0
    THEN [z |-> z, left |-> left.data, right |-> right.data, fault |-> FALSE]
    ELSE R_loop([z |-> z, left |-> left.data, right |-> right.data, fault |-> FALSE],
                1, numSamples, g)

----------------------------------------------------------------------------
(* The state after construction of every object, before any call *)

Constructed ==
    /\ rb = RB_new
    /\ pushed = <<>>
    /\ rev = Rev_new
    /\ riser = R_new
    /\ flt = F_new
    /\ cmb = CF_new
    /\ ctl = [pc |-> "new", sets |-> 0, freqOffset |-> 0,
              filterCalls |-> {}, combCalls |-> {}]
    /\ aud = [pc |-> "idle", samples |-> 0, x |-> 0, delayed |-> 0, out |-> 0,
              seen |-> <<>>]
    /\ call = [op |-> "new"]
    /\ lastSet = [op |-> "none"]
    /\ fault = FALSE
    /\ calls = 0

----------------------------------------------------------------------------
(* The stand-alone RingBuffer: its public operations, called in any order  *)

\* The largest number of operations on the stand-alone buffer in one run.
MaxRingOps == 6

RingSizes == {0, 3}
RingRates == {0, 1, 2}
DelayTimes == {0, Scale \div 2, -Scale, 5 * Scale}
SmoothTimes == {0, Scale}
PushSamples == {Scale, 2 * Scale}
\* what the cell past the end of an allocation may hold
Garbage == {0, NaN}

RingPrepare(n, sr) ==
    /\ ~fault /\ calls < MaxRingOps
    /\ rb' = RB_prepare(rb, n, sr)
    /\ pushed' = <<>>
    /\ call' = [op |-> "prepare", n |-> n, sr |-> sr]
    /\ calls' = calls + 1 /\ UNCHANGED <<rev, riser, flt, cmb, ctl, aud, lastSet, fault>>

RingSetDelayTime(t, st) ==
    /\ ~fault /\ calls < MaxRingOps
    /\ rb' = RB_setDelayTime(rb, t, st)
    /\ call' = [op |-> "setDelayTime", t |-> t, st |-> st]
    /\ calls' = calls + 1 /\ UNCHANGED <<pushed, rev, riser, flt, cmb, ctl, aud, lastSet, fault>>

RingPush(v) ==
    /\ ~fault /\ calls < MaxRingOps
    /\ call' = [op |-> "push", v |-> v]
    /\ IF RB_noStorage(rb)
       THEN fault' = TRUE /\ UNCHANGED <<rb, pushed>>
       ELSE /\ rb' = RB_pushToBuffer(rb, v)
            /\ pushed' = Append(pushed, v)
            /\ UNCHANGED fault
    /\ calls' = calls + 1 /\ UNCHANGED <<rev, riser, flt, cmb, ctl, aud, lastSet>>

RingRead(interp, g) ==
    /\ ~fault /\ calls < MaxRingOps
    /\ IF RB_noStorage(rb)
       THEN /\ fault' = TRUE
            /\ call' = [op |-> "read", interp |-> interp]
            /\ UNCHANGED rb
       ELSE /\ rb' = RB_getFromBuffer(rb, interp)
            /\ call' = [op |-> "read", interp |-> interp,
                        settled |-> ~SV_isSmoothing(rb.delayTime),
                        k |-> ToUInt(RB_readOffset(rb)),
                        indices |-> RB_readIndices(rb, interp),
                        val |-> RB_getValue(rb, interp, g)]
            /\ UNCHANGED fault
    /\ calls' = calls + 1 /\ UNCHANGED <<pushed, rev, riser, flt, cmb, ctl, aud, lastSet>>

RingGetAndPush(v, g) ==
    /\ ~fault /\ calls < MaxRingOps
    /\ IF RB_noStorage(rb)
       THEN /\ fault' = TRUE
            /\ call' = [op |-> "getAndPush", v |-> v]
            /\ UNCHANGED <<rb, pushed>>
       ELSE /\ rb' = RB_getAndPush(rb, v)
            /\ pushed' = Append(pushed, v)
            /\ call' = [op |-> "getAndPush", v |-> v,
                        val |-> RB_getValue(RB_pushToBuffer(rb, v), "noInterp", g)]
            /\ UNCHANGED fault
    /\ calls' = calls + 1 /\ UNCHANGED <<rev, riser, flt, cmb, ctl, aud, lastSet>>

RingForceIncrement ==
    /\ ~fault /\ calls < MaxRingOps
    /\ rb' = RB_forceIncrementWritePointer(rb)
    /\ pushed' = <<>>
    /\ call' = [op |-> "forceIncrement"]
    /\ calls' = calls + 1 /\ UNCHANGED <<rev, riser, flt, cmb, ctl, aud, lastSet, fault>>

RingClear ==
    /\ ~fault /\ calls < MaxRingOps
    /\ rb' = RB_clear(rb)
    /\ pushed' = <<>>
    /\ call' = [op |-> "clear"]
    /\ calls' = calls + 1 /\ UNCHANGED <<rev, riser, flt, cmb, ctl, aud, lastSet, fault>>

InitRing == Constructed

NextRing ==
    \/ \E n \in RingSizes, sr \in RingRates : RingPrepare(n, sr)
    \/ \E t \in DelayTimes, st \in SmoothTimes : RingSetDelayTime(t, st)
    \/ \E v \in PushSamples : RingPush(v)
    \/ \E interp \in Interps, g \in Garbage : RingRead(interp, g)
    \/ \E v \in PushSamples, g \in Garbage : RingGetAndPush(v, g)
    \/ RingForceIncrement
    \/ RingClear

SpecRing == InitRing /\ [][NextRing]_vars

----------------------------------------------------------------------------
(* Delay round-trip of the RingBuffer *)

\* the last call was an uninterpolated read at a settled delay of k < N samples
\* of a buffer that holds N > 0 pushed samples
RoundTripRead ==
    /\ call.op = "read" /\ ~fault
    /\ call.interp = "noInterp" /\ call.settled
    /\ Len(pushed) >= rb.size
    /\ call.k < rb.size

\* C3 (as amended): after at least N pushes into a buffer of capacity N > 0, an
\* uninterpolated read at a settled delay of k < N samples returns the cell at
\* index (writeIndex - k) mod N; for 1 <= k < N that is the sample written k
\* pushes earlier, and for k = 0 it is the oldest stored sample, the one written
\* N pushes earlier.
C3_RoundTrip ==
    RoundTripRead =>
        /\ call.indices = <<(rb.writeIndex - call.k) % rb.size>>
        /\ call.val = pushed[Len(pushed) - (IF call.k = 0 THEN rb.size ELSE call.k) + 1]

\* C3 as stated: the read returns the sample written k pushes earlier for every
\* 0 <= k < N, a delay of 0 giving the latest sample pushed.
C3_AsStated ==
    RoundTripRead =>
        /\ call.indices = <<(rb.writeIndex - call.k) % rb.size>>
        /\ call.val = pushed[Len(pushed) - (IF call.k = 0 THEN 1 ELSE call.k) + 1]

\* a round-trip read at k = 0 of a buffer whose oldest and latest samples differ
C3_Witness ==
    /\ RoundTripRead /\ call.k = 0 /\ rb.size = 3
    /\ pushed[Len(pushed)] # pushed[Len(pushed) - rb.size + 1]
    /\ call.val = pushed[Len(pushed) - rb.size + 1]

----------------------------------------------------------------------------
(* Capacity, delay time and write index of the RingBuffer *)

\* the last call was prepare(N, R)
Prepared == call.op = "prepare" /\ ~fault

\* C11: after any prepare call, whatever the requested size and sample rate
\* (0 included), the capacity is above 0, so that every read index is computed
\* modulo a non-zero capacity.
C11_CapacityNonZero == Prepared => rb.size > 0

\* C12: in every state reached by prepare and setDelayTime calls, a later
\* prepare that shrinks the capacity or changes the rate included, the delay
\* time target lies in [0, capacity / sampleRate].
C12_DelayWithinCapacity ==
    /\ FGe(rb.delayTime.tgt, 0)
    /\ FLe(rb.delayTime.tgt, DivMag(rb.size, rb.sampleRate))

\* the step is a push or getAndPush that stored its sample
PushStep == call'.op \in {"push", "getAndPush"} /\ calls' = calls + 1 /\ ~fault'

\* C13: in a buffer of capacity > 0, after any sequence of prepare, push,
\* getAndPush, read and forceIncrementWritePointer, 0 <= writeIndex < capacity,
\* and each push advances writeIndex by one, wrapping to 0 at the capacity.
C13_WriteIndexInRange ==
    /\ [](rb.size > 0 => (0 <= rb.writeIndex /\ rb.writeIndex < rb.size))
    /\ [][PushStep => rb'.writeIndex = (IF rb.writeIndex + 1 = rb.size THEN 0
                                        ELSE rb.writeIndex + 1)]_vars

\* a push into the last cell of a buffer of capacity 3 took writeIndex back to 0
C13_Witness ==
    /\ call.op \in {"push", "getAndPush"} /\ ~fault
    /\ rb.size = 3 /\ rb.writeIndex = 0 /\ Len(pushed) = 3

\* C14: after every prepare call, whether or not the requested size differs
\* from the current capacity, all stored samples are 0 and the write index is 0.
C14_PrepareResets == Prepared => (rb.buffer = EmptyBlock /\ rb.writeIndex = 0)

\* C23: every buffer index dereferenced by a read whose delay is within the
\* clamped range (an offset of at most the capacity) lies in [0, capacity):
\* the previous index of the linear read and the four indices of the cubic
\* read included.
C23_ReadIndicesInRange ==
    (call.op = "read" /\ ~fault /\ call.k <= rb.size) =>
        \A j \in DOMAIN call.indices :
            call.indices[j] >= 0 /\ call.indices[j] < rb.size

\* the number of samples of a ramp of T seconds, rounded up
RampLimit(T, sampleRate) == (FScale(T, sampleRate) + Scale - 1) \div Scale

\* setDelayTime(t, T) has just been called on a buffer with storage and the
\* delay is not at its target yet
RampStarted ==
    /\ call.op = "setDelayTime" /\ ~fault /\ rb.size > 0
    /\ FNe(rb.delayTime.cur, rb.delayTime.tgt)

\* the step is a read of a buffer with storage
ReadStep == calls' = calls + 1 /\ call'.op = "read" /\ ~fault'

\* C27: after setDelayTime(t, T) the delay reaches its target within
\* ceil(T * sampleRate) reads: every read advances the ramp by one step and
\* leaves the buffer contents and the write index alone, a delay that is off
\* its target after setDelayTime has at most ceil(T * sampleRate) steps to
\* go, and with no step to go the reads use the target.
C27_DelayConverges ==
    /\ [](RampStarted => rb.delayTime.cd <= RampLimit(call.st, rb.sampleRate))
    /\ [](rb.delayTime.cd = 0 => SV_value(rb.delayTime) = rb.delayTime.tgt)
    /\ [][ReadStep => /\ rb'.delayTime = SV_advance(rb.delayTime)
                      /\ rb'.delayTime.cd = (IF rb.delayTime.cd > 0 THEN rb.delayTime.cd - 1 ELSE 0)
                      /\ rb'.buffer = rb.buffer
                      /\ rb'.writeIndex = rb.writeIndex]_vars

----------------------------------------------------------------------------
(* The RiserProcessor: prepare, setParameters and process in any order     *)

\* The largest number of calls on the processor in one run.
MaxCalls == 3

Rates == {0, 32000, 44100}
DoublerAmounts == {0, (15 * Scale) \div 10}
FilterAmounts == {0, Scale}
ReverbAmounts == {0, (65 * Scale) \div 100}
MasterAmounts == {0, (15 * Scale) \div 10}
LeftBlocks == {Null, Ptr(<<Scale \div 2, 2 * Scale>>)}
RightBlocks == {Null, Ptr(<<-(2 * Scale), 0>>)}
SampleCounts == {-1, 0, 2}

Prepare(sampleRate) ==
    /\ ~fault /\ calls < MaxCalls
    /\ riser' = R_prepare(riser, sampleRate)
    /\ call' = [op |-> "prepare", sampleRate |-> sampleRate]
    /\ calls' = calls + 1
    /\ UNCHANGED <<rb, pushed, rev, flt, cmb, ctl, aud, lastSet, fault>>

SetParameters(d, f, r, m) ==
    /\ ~fault /\ calls < MaxCalls
    /\ riser' = R_setParameters(riser, d, f, r, m)
    /\ call' = [op |-> "setParameters", d |-> d, f |-> f, r |-> r, m |-> m]
    /\ lastSet' = call'
    /\ calls' = calls + 1
    /\ UNCHANGED <<rb, pushed, rev, flt, cmb, ctl, aud, fault>>

\* the processor and both arrays after process(), or the fault
Processed(left, right, numSamples, res) ==
    /\ riser' = IF res.fault THEN riser ELSE res.z
    /\ fault' = res.fault
    /\ call' = [op |-> "process", left |-> left, right |-> right,
                numSamples |-> numSamples,
                outLeft |-> res.left, outRight |-> res.right]

Process(left, right, numSamples, g) ==
    /\ ~fault /\ calls < MaxCalls
    /\ Processed(left, right, numSamples, R_process(riser, left, right, numSamples, g))
    /\ calls' = calls + 1
    /\ UNCHANGED <<rb, pushed, rev, flt, cmb, ctl, aud, lastSet>>

Init == Constructed

Next ==
    \/ \E sampleRate \in Rates : Prepare(sampleRate)
    \/ \E d \in DoublerAmounts, f \in FilterAmounts, r \in ReverbAmounts, m \in MasterAmounts :
          SetParameters(d, f, r, m)
    \/ \E left \in LeftBlocks, right \in RightBlocks, numSamples \in SampleCounts, g \in Garbage :
          Process(left, right, numSamples, g)

Spec == Init /\ [][Next]_vars

----------------------------------------------------------------------------
(* Properties of the RiserProcessor *)

\* a gain or amount inside [lo, hi]; NaN is inside no range
Within(x, lo, hi) == FGe(x, lo) /\ FLe(x, hi)

\* C2: after setParameters with master = 0, whether before or after prepare,
\* every derived amount is at its mapped minimum: both combs have wet 0 and
\* feedback 0, the reverb has mix 0, and the reverb's gains head for dry 1 and
\* wet 0, so that the settled chain passes the input through.
C2_MacroBypass ==
    (lastSet.op = "setParameters" /\ clamp(lastSet.m, 0, Scale) = 0) =>
        /\ \A ch \in Channels : /\ riser.flanger[ch].parameters.wet = 0
                                 /\ riser.flanger[ch].parameters.feedback = 0
        /\ riser.reverb.parameters.mix = 0
        /\ riser.reverb.drySmooth.tgt = Scale
        /\ riser.reverb.wet1.tgt = 0
        /\ riser.reverb.wet2.tgt = 0

\* the step is a call of process whose guard rejects it: a null array or a
\* sample count that is not positive
RejectedProcess ==
    /\ calls' = calls + 1
    /\ call'.op = "process"
    /\ (call'.left.null \/ call'.right.null \/ call'.numSamples <= 0)

\* C5: process(left, right, numSamples) with a null array or numSamples <= 0
\* changes nothing: the processor (buffers, write indices, filter registers,
\* smoothed values) and both sample arrays stay as they were, and nothing is
\* dereferenced.
C5_NoOp ==
    [][RejectedProcess =>
          /\ riser' = riser
          /\ fault' = fault
          /\ call'.outLeft = call'.left.data
          /\ call'.outRight = call'.right.data]_vars

\* a rejected call on a processor that is prepared and holds samples from an
\* earlier block, with one array null and a positive sample count
C5_Witness ==
    /\ call.op = "process" /\ ~fault
    /\ call.left.null /\ ~call.right.null /\ call.numSamples = 2
    /\ call.outRight = call.right.data
    /\ riser.lowpass[0].dly1 # 0
    /\ riser.flanger[0].delay.writeIndex = 2

\* C6: every sample written by a call of process with non-null arrays and
\* numSamples > 0 lies in [-1.2, 1.2], in any parameter and buffer state.
C6_Clipped ==
    (call.op = "process" /\ ~fault /\ ~call.left.null /\ ~call.right.null
                         /\ call.numSamples > 0) =>
        \A i \in 1 .. call.numSamples :
            /\ Within(call.outLeft[i], -Ceil, Ceil)
            /\ Within(call.outRight[i], -Ceil, Ceil)

\* prepare(r) twice in a row leaves the processor as prepare(r) once does
PrepareIdempotent ==
    \A r \in Rates : R_prepare(R_prepare(riser, r), r) = R_prepare(riser, r)

\* calculateValues() has run, in prepare or in setParameters: the reverb holds
\* the parameters mapped for it (the constructor leaves it with its defaults)
Configured == riser.reverb.parameters = riser.reverbParams

\* C7 (as amended): once prepare or setParameters has been called at least
\* once, calling prepare(r) twice in a row leaves the processor in the same
\* state as calling prepare(r) once, for every rate r.
C7_PrepareIdempotent == (Configured /\ ~fault) => PrepareIdempotent

\* C7 as stated: from any state, the freshly constructed processor included,
\* prepare(r) twice in a row equals prepare(r) once.
C7_AsStated == ~fault => PrepareIdempotent

\* a processor prepared at 44100 after it processed a block at that rate: it
\* holds filter registers and advanced write indices, and preparing it again
\* at 44100 leaves it as it is
C7_Witness ==
    /\ call.op = "prepare" /\ call.sampleRate = 44100 /\ calls >= 3 /\ ~fault
    /\ riser.lowpass[0].dly1 # 0
    /\ riser.flanger[0].delay.writeIndex = 2
    /\ R_prepare(riser, 44100) = riser

\* C8: setParameters(d, f, r, m) stores master = clamp(m) and the doubler,
\* filter and reverb amounts clamp(x) * clamp(m), each inside [0, 1], whatever
\* the arguments and whatever was stored before.
C8_ClampedAmounts ==
    call.op = "setParameters" =>
        /\ riser.masterAmount = clamp(call.m, 0, Scale)
        /\ riser.flangerAmount = FMul(clamp(call.d, 0, Scale), clamp(call.m, 0, Scale))
        /\ riser.filterAmount = FMul(clamp(call.f, 0, Scale), clamp(call.m, 0, Scale))
        /\ riser.reverbAmount = FMul(clamp(call.r, 0, Scale), clamp(call.m, 0, Scale))
        /\ \A x \in {riser.masterAmount, riser.flangerAmount, riser.filterAmount,
                      riser.reverbAmount} : Within(x, 0, Scale)

\* a second or later setParameters whose doubler and master arguments exceed 1
\* and whose reverb argument is inside the range
C8_Witness ==
    /\ call.op = "setParameters" /\ calls >= 2
    /\ call.d > Scale /\ call.m > Scale /\ call.r = (65 * Scale) \div 100
    /\ riser.flangerAmount = Scale
    /\ riser.reverbAmount = (65 * Scale) \div 100

\* the processor was prepared at a rate above 0 and setParameters was called
PreparedAndSet ==
    /\ lastSet.op = "setParameters"
    /\ \A ch \in Channels : riser.lowpass[ch].sampleRate > 0

\* C9: after prepare at a rate above 0 and any setParameters, each processor's
\* own invariants hold: comb feedback in [0, 1], comb delay time at most
\* capacity / sampleRate, biquad Q > 0 and cutoff < sampleRate / 2, reverb comb
\* counts at most 8 and 4.
C9_ProcessorInvariants ==
    PreparedAndSet =>
        /\ \A ch \in Channels :
              /\ Within(riser.flanger[ch].parameters.feedback, 0, Scale)
              /\ FLe(riser.flanger[ch].delay.delayTime.tgt,
                     DivMag(riser.flanger[ch].delay.size, riser.flanger[ch].delay.sampleRate))
              /\ FGt(riser.lowpass[ch].parameters.q, 0)
              /\ FGt(riser.highpass[ch].parameters.q, 0)
              /\ FLt(2 * (riser.lowpass[ch].parameters.cutoff \div Scale), riser.lowpass[ch].sampleRate)
              /\ FLt(2 * (riser.highpass[ch].parameters.cutoff \div Scale), riser.highpass[ch].sampleRate)
        /\ riser.reverb.parameters.numEarlyCombs <= 8
        /\ riser.reverb.parameters.numLateCombs <= 4

\* C10: after prepare, 0 included, no component keeps a sample rate of 0: every
\* rate later used as a divisor is at least 1.
C10_RateFloor ==
    call.op = "prepare" =>
        /\ \A ch \in Channels :
              /\ riser.flanger[ch].delay.sampleRate >= 1
              /\ riser.lowpass[ch].sampleRate >= 1
              /\ riser.highpass[ch].sampleRate >= 1
              /\ \A i \in EarlyIdx : riser.reverb.earlyCombs[ch][i].buffer.sampleRate >= 1
              /\ \A i \in LateIdx : riser.reverb.lateCombs[ch][i].buffer.sampleRate >= 1
        /\ riser.reverb.sampleRate >= 1

\* the capacity of every delay buffer of the processor: both flanger combs
\* and the early and late combs of the reverb
Capacities(z) ==
    [flanger |-> [ch \in Channels |-> z.flanger[ch].delay.size],
     early |-> [ch \in Channels |-> [i \in EarlyIdx |-> z.reverb.earlyCombs[ch][i].buffer.size]],
     late |-> [ch \in Channels |-> [i \in LateIdx |-> z.reverb.lateCombs[ch][i].buffer.size]]]

\* the step is a call of process or of setParameters
AudioOrControlStep ==
    /\ calls' = calls + 1
    /\ call'.op \in {"process", "setParameters"}

\* C20: neither process nor setParameters, with the setDelayTime, push and
\* read calls they make on the components, allocates or reallocates: the
\* capacity of every delay buffer is unchanged by them.
C20_NoAllocation ==
    [][AudioOrControlStep => Capacities(riser') = Capacities(riser)]_vars

\* a block of two samples was processed by a prepared processor whose buffers
\* hold 44100 and 4410 cells
C20_Witness ==
    /\ call.op = "process" /\ ~fault
    /\ ~call.left.null /\ ~call.right.null /\ call.numSamples = 2
    /\ lastSet.op = "setParameters"
    /\ riser.flanger[0].delay.size = 44100
    /\ riser.flanger[0].delay.writeIndex = 2
    /\ riser.reverb.earlyCombs[0][0].buffer.size = 4410

\* the macro amounts the stored amounts come from: those of the last
\* setParameters call, clamped, and before any call the defaults of the
\* plug-in's parameters
MacroAmounts ==
    IF lastSet.op = "setParameters"
    THEN [doubler |-> clamp(lastSet.d, 0, Scale), filter |-> clamp(lastSet.f, 0, Scale),
          reverb |-> clamp(lastSet.r, 0, Scale)]
    ELSE [doubler |-> (65 * Scale) \div 100, filter |-> Scale,
          reverb |-> (70 * Scale) \div 100]

\* C24: in every state of the processor, right after construction and after
\* prepare with no setParameters call included, the stored doubler, filter
\* and reverb amounts are the macro amounts multiplied by the stored
\* masterAmount, so that a stored masterAmount of 0 leaves all three at 0.
C24_AmountsScaledByMaster ==
    /\ riser.flangerAmount = FMul(MacroAmounts.doubler, riser.masterAmount)
    /\ riser.filterAmount = FMul(MacroAmounts.filter, riser.masterAmount)
    /\ riser.reverbAmount = FMul(MacroAmounts.reverb, riser.masterAmount)
    /\ riser.masterAmount = 0 =>
          riser.flangerAmount = 0 /\ riser.filterAmount = 0 /\ riser.reverbAmount = 0

\* the delay-time target of one comb of the reverb
Comb_target(c) == c.buffer.delayTime.tgt

\* the targets of both channels for one comb time, s/2 apart from it
SpreadAround(combs, time, halfSpread) ==
    /\ Comb_target(combs[0]) = FAdd(time, halfSpread)
    /\ Comb_target(combs[1]) = FSub(time, halfSpread)
    /\ FSub(Comb_target(combs[0]), Comb_target(combs[1])) = 2 * halfSpread

\* C25: for every early and every late comb i of the processor's reverb the
\* channel-0 delay-time target is combTime[i] + s/2 and the channel-1 target
\* is combTime[i] - s/2, with s = clamp(spread, 0, 0.01), so that the two
\* targets differ by exactly s.
C25_SpreadTargets ==
    LET r == riser.reverb
        half == FDiv(clamp(r.parameters.spread, 0, Scale \div 100), 2 * Scale)
    IN  /\ \A i \in EarlyIdx :
              SpreadAround([ch \in Channels |-> r.earlyCombs[ch][i]], r.earlyCombTimes[i], half)
        /\ \A i \in LateIdx :
              SpreadAround([ch \in Channels |-> r.lateCombs[ch][i]], r.lateCombTimes[i], half)

\* both wet gains of the reverb are 0 and head for 0
WetAtZero(r) ==
    /\ r.wet1.cur = 0 /\ r.wet1.tgt = 0
    /\ r.wet2.cur = 0 /\ r.wet2.tgt = 0

\* the one-sample blocks of the runs compared: one pair of arrays, and one
\* other array for each channel
RunLeft == <<2 * Scale>>
RunRight == <<-(2 * Scale)>>
OtherLeft == <<Scale \div 4>>
OtherRight == <<Scale \div 2>>

\* the left output of process for one left and one right block
LeftOutput(z, left, right, g) == R_process(z, Ptr(left), Ptr(right), 1, g).left

\* the right output of process for one left and one right block
RightOutput(z, left, right, g) == R_process(z, Ptr(left), Ptr(right), 1, g).right

\* the last call was a process call that its guard rejected; it left the
\* processor as the call before it did
Rejected ==
    call.op = "process" /\ (call.left.null \/ call.right.null \/ call.numSamples <= 0)

----------------------------------------------------------------------------
(* The stand-alone Reverb: prepare, setParameters, process and clear in    *)
(* any order                                                               *)

\* The largest number of calls on the stand-alone reverb in one run.
MaxRevCalls == 4

RevRates == {0, 20, 44100}
RevParameters ==
    {[Rev_Parameters EXCEPT !.mix = mix, !.width = width,
                            !.damping = (6 * Scale) \div 10, !.size = (2 * Scale) \div 10] :
        mix \in {0, Scale \div 2}, width \in {0, Scale}}
    \cup {[Rev_Parameters EXCEPT !.numEarlyCombs = 9,
                                 !.damping = (6 * Scale) \div 10, !.size = (2 * Scale) \div 10]}
RevLeft == {Null, Ptr(<<Scale>>)}
RevRight == {Null, Ptr(<<Scale \div 2>>)}

RevPrepare(newSampleRate) ==
    /\ ~fault /\ calls < MaxRevCalls
    /\ rev' = Rev_prepare(rev, newSampleRate)
    /\ call' = [op |-> "prepare", sampleRate |-> newSampleRate]
    /\ calls' = calls + 1
    /\ UNCHANGED <<rb, pushed, riser, flt, cmb, ctl, aud, lastSet, fault>>

RevSetParameters(newParameters) ==
    /\ ~fault /\ calls < MaxRevCalls
    /\ rev' = Rev_setParameters(rev, newParameters)
    /\ call' = [op |-> "setParameters", parameters |-> newParameters]
    /\ lastSet' = call'
    /\ calls' = calls + 1
    /\ UNCHANGED <<rb, pushed, riser, flt, cmb, ctl, aud, fault>>

\* the reverb and both samples after the body of process()
RevProcessed(left, right, res) ==
    /\ rev' = res.rev
    /\ call' = [op |-> "process", left |-> left, right |-> right,
                settled |-> /\ ~SV_isSmoothing(rev.drySmooth)
                            /\ ~SV_isSmoothing(rev.wet1)
                            /\ ~SV_isSmoothing(rev.wet2),
                outLeft |-> <<res.left>>, outRight |-> <<res.right>>]

\* process(left, right): the guard on null pointers, then the body
RevProcess(left, right, g) ==
    /\ ~fault /\ calls < MaxRevCalls
    /\ IF left.null \/ right.null
       THEN /\ call' = [op |-> "process", left |-> left, right |-> right,
                        settled |-> FALSE, outLeft |-> left.data, outRight |-> right.data]
            /\ UNCHANGED <<rev, fault>>
       ELSE IF Rev_faults(rev)
       THEN /\ fault' = TRUE
            /\ call' = [op |-> "process", left |-> left, right |-> right,
                        settled |-> FALSE, outLeft |-> left.data, outRight |-> right.data]
            /\ UNCHANGED rev
       ELSE /\ RevProcessed(left, right, Rev_process(rev, left.data[1], right.data[1], g))
            /\ UNCHANGED fault
    /\ calls' = calls + 1
    /\ UNCHANGED <<rb, pushed, riser, flt, cmb, ctl, aud, lastSet>>

RevClear ==
    /\ ~fault /\ calls < MaxRevCalls
    /\ rev' = Rev_clear(rev)
    /\ call' = [op |-> "clear"]
    /\ calls' = calls + 1
    /\ UNCHANGED <<rb, pushed, riser, flt, cmb, ctl, aud, lastSet, fault>>

InitReverb == Constructed

NextReverb ==
    \/ \E newSampleRate \in RevRates : RevPrepare(newSampleRate)
    \/ \E newParameters \in RevParameters : RevSetParameters(newParameters)
    \/ \E left \in RevLeft, right \in RevRight, g \in Garbage : RevProcess(left, right, g)
    \/ RevClear

SpecReverb == InitReverb /\ [][NextReverb]_vars

\* C1: a Reverb whose most recent setParameters had mix = 0 is a bypass: its
\* gains head for dry 1, wet1 0 and wet2 0, and once they have settled
\* process(l, r) leaves l and r unchanged.
C1_ReverbBypass ==
    (lastSet.op = "setParameters" /\ lastSet.parameters.mix = 0) =>
        /\ rev.drySmooth.tgt = Scale
        /\ rev.wet1.tgt = 0
        /\ rev.wet2.tgt = 0
        /\ (call.op = "process" /\ ~fault /\ call.settled) =>
              (call.outLeft = call.left.data /\ call.outRight = call.right.data)

\* C17: in every state of a Reverb reached through setParameters with
\* arbitrary Parameters, numEarlyCombs <= 8 and numLateCombs <= 4, so that
\* process stays inside the 8 early and 4 late combs of each channel.
C17_CombCounts ==
    /\ rev.parameters.numEarlyCombs <= 8
    /\ rev.parameters.numLateCombs <= 4

----------------------------------------------------------------------------
(* Two threads on one Filter and one CombFilter: the control thread runs   *)
(* setParameters (OneRiserEditor::valueChanged), the audio thread runs     *)
(* process (processBlock); neither takes a lock or uses an atomic, so the  *)
(* threads interleave at the single reads and writes of the fields         *)

\* The largest number of setParameters calls of the control thread in one run.
MaxSets == 2
\* The largest number of samples the audio thread processes in one run.
MaxSamples == 1

RaceRates == {44100}
RaceInputs == {Scale \div 2}
RaceOffsets == {0}
RaceFilterParameters ==
    {[type |-> "lowpass", cutoff |-> 4000 * Scale, q |-> (85 * Scale) \div 100, enabled |-> TRUE],
     [type |-> "lowpass", cutoff |-> 20000 * Scale, q |-> Scale \div 2, enabled |-> TRUE]}
RaceCombParameters ==
    {[freq |-> 280 * Scale, wet |-> (75 * Scale) \div 100, feedback |-> (55 * Scale) \div 100,
      interpType |-> "linearInterp"],
     [freq |-> 20 * Scale, wet |-> 0, feedback |-> (15 * Scale) \div 10,
      interpType |-> "linearInterp"]}

\* the coefficients Filter::process reads, and the gains CombFilter::process reads
F_coefficients(f) == <<f.a0, f.a1, f.a2, f.b1, f.b2>>
CF_gains(c) == <<c.parameters.feedback, c.parameters.wet>>

\* prepareToPlay, before either thread runs
RacePrepare(sampleRate) ==
    /\ ctl.pc = "new"
    /\ flt' = F_prepare(flt, sampleRate)
    /\ cmb' = CF_prepare(cmb, sampleRate)
    /\ ctl' = [ctl EXCEPT !.pc = "idle",
                          !.filterCalls = {F_coefficients(flt)},
                          !.combCalls = {CF_gains(cmb)}]
    /\ UNCHANGED <<rb, pushed, rev, riser, aud, call, lastSet, fault, calls>>

\* Filter::setParameters, line 26: parameters = newParameters
FilterAssign(newParameters) ==
    /\ ctl.pc = "idle" /\ ctl.sets < MaxSets
    /\ flt' = F_assign(flt, newParameters)
    /\ ctl' = [ctl EXCEPT !.pc = IF newParameters.enabled THEN "k" ELSE "idle",
                          !.sets = ctl.sets + 1,
                          !.filterCalls = ctl.filterCalls \cup
                              {F_coefficients(F_setParameters(flt, newParameters))}]
    /\ UNCHANGED <<rb, pushed, rev, riser, cmb, aud, call, lastSet, fault, calls>>

\* the statements of Filter::setCoefficients in the order of the source
FilterSteps == <<"k", "n", "a0", "a1", "a2", "b1", "b2", "idle">>

F_step(f, pc) ==
    CASE pc = "k" -> F_setK(f)
      [] pc = "n" -> F_setN(f)
      [] pc = "a0" -> F_setA0(f)
      [] pc = "a1" -> F_setA1(f)
      [] pc = "a2" -> F_setA2(f)
      [] pc = "b1" -> F_setB1(f)
      [] pc = "b2" -> F_setB2(f)

\* Filter::setCoefficients, one statement
FilterStep ==
    /\ \E i \in 1 .. 7 :
          /\ ctl.pc = FilterSteps[i]
          /\ flt' = F_step(flt, ctl.pc)
          /\ ctl' = [ctl EXCEPT !.pc = FilterSteps[i + 1]]
    /\ UNCHANGED <<rb, pushed, rev, riser, cmb, aud, call, lastSet, fault, calls>>

\* CombFilter::setParameters, line 27: p = newParams
CombAssign(newParams, freqOffset) ==
    /\ ctl.pc = "idle" /\ ctl.sets < MaxSets
    /\ cmb' = CF_assign(cmb, newParams)
    /\ ctl' = [ctl EXCEPT !.pc = "clamp", !.sets = ctl.sets + 1, !.freqOffset = freqOffset,
                          !.combCalls = ctl.combCalls \cup
                              {CF_gains(CF_setParameters(cmb, newParams, freqOffset))}]
    /\ UNCHANGED <<rb, pushed, rev, riser, flt, aud, call, lastSet, fault, calls>>

\* CombFilter::setParameters, line 28: the feedback is clamped in place
CombClamp ==
    /\ ctl.pc = "clamp"
    /\ cmb' = CF_clampFeedback(cmb)
    /\ ctl' = [ctl EXCEPT !.pc = "delay"]
    /\ UNCHANGED <<rb, pushed, rev, riser, flt, aud, call, lastSet, fault, calls>>

\* CombFilter::setParameters, line 30: delay.setDelayTime
CombDelay ==
    /\ ctl.pc = "delay"
    /\ cmb' = CF_setDelay(cmb, ctl.freqOffset)
    /\ ctl' = [ctl EXCEPT !.pc = "idle"]
    /\ UNCHANGED <<rb, pushed, rev, riser, flt, aud, call, lastSet, fault, calls>>

\* CombFilter::process, line 38: getDelay(&delayed)
AudioGetDelay(input, g) ==
    /\ ctl.pc # "new" /\ aud.pc = "idle" /\ aud.samples < MaxSamples
    /\ cmb' = [cmb EXCEPT !.delay = RB_getFromBuffer(cmb.delay, CF_interp(cmb))]
    /\ aud' = [aud EXCEPT !.pc = "c40", !.x = input, !.delayed = CF_delayed(cmb, g),
                          !.seen = <<>>]
    /\ UNCHANGED <<rb, pushed, rev, riser, flt, ctl, call, lastSet, fault, calls>>

\* CombFilter::process, lines 40-41: p.feedback is read, the sum is pushed
AudioPush ==
    /\ aud.pc = "c40"
    /\ cmb' = [cmb EXCEPT !.delay = RB_pushToBuffer(cmb.delay,
                              FAdd(aud.x, FMul(aud.delayed, cmb.parameters.feedback)))]
    /\ aud' = [aud EXCEPT !.pc = "c43",
                          !.seen = aud.seen @@ ("feedback" :> cmb.parameters.feedback)]
    /\ UNCHANGED <<rb, pushed, rev, riser, flt, ctl, call, lastSet, fault, calls>>

\* CombFilter::process, line 43: p.wet is read; the result is the filter's input
AudioCombReturn ==
    /\ aud.pc = "c43"
    /\ aud' = [aud EXCEPT !.pc = "f37",
                          !.x = FAdd(aud.x, FMul(aud.delayed, cmb.parameters.wet)),
                          !.seen = aud.seen @@ ("wet" :> cmb.parameters.wet)]
    /\ UNCHANGED <<rb, pushed, rev, riser, flt, cmb, ctl, call, lastSet, fault, calls>>

\* Filter::process, line 37: p.enabled is read
AudioGuard ==
    /\ aud.pc = "f37"
    /\ aud' = IF flt.parameters.enabled THEN [aud EXCEPT !.pc = "f39"]
              ELSE [aud EXCEPT !.pc = "idle", !.out = aud.x, !.samples = aud.samples + 1]
    /\ UNCHANGED <<rb, pushed, rev, riser, flt, cmb, ctl, call, lastSet, fault, calls>>

\* Filter::process, line 39: out = *input * co.a0 + co.dly1
AudioOut ==
    /\ aud.pc = "f39"
    /\ aud' = [aud EXCEPT !.pc = "f40", !.out = FAdd(FMul(aud.x, flt.a0), flt.dly1),
                          !.seen = aud.seen @@ ("a0" :> flt.a0)]
    /\ UNCHANGED <<rb, pushed, rev, riser, flt, cmb, ctl, call, lastSet, fault, calls>>

\* Filter::process, line 40: co.dly1 = *input * co.a1 + co.dly2 - co.b1 * out
AudioDly1 ==
    /\ aud.pc = "f40"
    /\ flt' = [flt EXCEPT !.dly1 = FSub(FAdd(FMul(aud.x, flt.a1), flt.dly2),
                                        FMul(flt.b1, aud.out))]
    /\ aud' = [aud EXCEPT !.pc = "f41",
                          !.seen = aud.seen @@ ("a1" :> flt.a1) @@ ("b1" :> flt.b1)]
    /\ UNCHANGED <<rb, pushed, rev, riser, cmb, ctl, call, lastSet, fault, calls>>

\* Filter::process, lines 41-42: co.dly2 = *input * co.a2 - co.b2 * out; return
AudioDly2 ==
    /\ aud.pc = "f41"
    /\ flt' = [flt EXCEPT !.dly2 = FSub(FMul(aud.x, flt.a2), FMul(flt.b2, aud.out))]
    /\ aud' = [aud EXCEPT !.pc = "idle", !.samples = aud.samples + 1,
                          !.seen = aud.seen @@ ("a2" :> flt.a2) @@ ("b2" :> flt.b2)]
    /\ UNCHANGED <<rb, pushed, rev, riser, cmb, ctl, call, lastSet, fault, calls>>

InitRace == Constructed

NextRace ==
    \/ \E sampleRate \in RaceRates : RacePrepare(sampleRate)
    \/ \E newParameters \in RaceFilterParameters : FilterAssign(newParameters)
    \/ FilterStep
    \/ \E newParams \in RaceCombParameters, freqOffset \in RaceOffsets :
          CombAssign(newParams, freqOffset)
    \/ CombClamp
    \/ CombDelay
    \/ \E input \in RaceInputs, g \in Garbage : AudioGetDelay(input, g)
    \/ AudioPush
    \/ AudioCombReturn
    \/ AudioGuard
    \/ AudioOut
    \/ AudioDly1
    \/ AudioDly2

SpecRace == InitRace /\ [][NextRace]_vars

\* C4: process never observes a torn or invalid parameter state: the comb
\* feedback it reads is inside [0, 1], the feedback and wet gains it reads for
\* one sample are those of one setParameters call, and the five coefficients it
\* reads for one sample are those one setParameters call leaves (the old call
\* or the new one).
C4_NoTornRead ==
    /\ "feedback" \in DOMAIN aud.seen => Within(aud.seen["feedback"], 0, Scale)
    /\ "wet" \in DOMAIN aud.seen =>
          <<aud.seen["feedback"], aud.seen["wet"]>> \in ctl.combCalls
    /\ "b2" \in DOMAIN aud.seen =>
          <<aud.seen["a0"], aud.seen["a1"], aud.seen["a2"], aud.seen["b1"], aud.seen["b2"]>>
              \in ctl.filterCalls

----------------------------------------------------------------------------
(* The stand-alone Filter: prepare, setParameters and process in any order *)

\* The largest number of calls on the stand-alone filter in one run.
MaxFltCalls == 4

FltRates == {0, 44100}
FltParameters ==
    [type : {"lowpass", "highpass"}, cutoff : {1000 * Scale, 10000 * Scale},
     q : {7071, 2 * Scale}, enabled : {TRUE, FALSE}]
FltInputs == {Null, Ptr(<<Scale>>), Ptr(<<-(Scale \div 2)>>)}

FltPrepare(newSampleRate) ==
    /\ ~fault /\ calls < MaxFltCalls
    /\ flt' = F_prepare(flt, newSampleRate)
    /\ call' = [op |-> "prepare", newSampleRate |-> newSampleRate]
    /\ calls' = calls + 1
    /\ UNCHANGED <<rb, pushed, rev, riser, cmb, ctl, aud, lastSet, fault>>

FltSetParameters(newParameters) ==
    /\ ~fault /\ calls < MaxFltCalls
    /\ flt' = F_setParameters(flt, newParameters)
    /\ call' = [op |-> "setParameters", parameters |-> newParameters,
                fresh |-> FNe(newParameters.q, flt.prevQ),
                sameK |-> /\ FEq(newParameters.cutoff, flt.prevCutoff)
                          /\ flt.sampleRate = flt.prevSampleRate]
    /\ lastSet' = call'
    /\ calls' = calls + 1
    /\ UNCHANGED <<rb, pushed, rev, riser, cmb, ctl, aud, fault>>

FltProcess(input) ==
    /\ ~fault /\ calls < MaxFltCalls
    /\ IF F_faults(input)
       THEN /\ fault' = TRUE
            /\ call' = [op |-> "process", input |-> input]
            /\ UNCHANGED flt
       ELSE /\ flt' = F_process(flt, input.data[1])
            /\ call' = [op |-> "process", input |-> input,
                        out |-> F_output(flt, input.data[1])]
            /\ UNCHANGED fault
    /\ calls' = calls + 1
    /\ UNCHANGED <<rb, pushed, rev, riser, cmb, ctl, aud, lastSet>>

InitFilter == Constructed

NextFilter ==
    \/ \E sr \in FltRates : FltPrepare(sr)
    \/ \E np \in FltParameters : FltSetParameters(np)
    \/ \E input \in FltInputs : FltProcess(input)

SpecFilter == InitFilter /\ [][NextFilter]_vars

\* the step is a call of process on a disabled filter or with a null input
PassThroughStep ==
    /\ calls' = calls + 1
    /\ call'.op = "process"
    /\ (call'.input.null \/ ~flt.parameters.enabled)

\* C16: process on a disabled filter, or with a null input, is a pass-through:
\* it does not fault, it leaves dly1 and dly2 unchanged, and it returns the
\* input unchanged.
C16_PassThrough ==
    [][PassThroughStep => /\ ~fault'
                          /\ flt'.dly1 = flt.dly1 /\ flt'.dly2 = flt.dly2
                          /\ call'.out = call'.input.data[1]]_vars

\* rounding allowance of the coefficient sums
DcTol == Scale \div 100

\* the last call was setParameters at a sample rate above 0 with the filter
\* enabled, cutoff below half the rate and Q above 0, and every earlier call
\* left finite coefficients
ValidSet ==
    /\ call.op = "setParameters" /\ call.parameters.enabled
    /\ flt.sampleRate > 0
    /\ 2 * (call.parameters.cutoff \div Scale) < flt.sampleRate
    /\ FGt(call.parameters.q, 0)
    /\ IsFinite(flt.n) /\ IsFinite(flt.k)

\* a0 + a1 + a2 and 1 + b1 + b2
F_numeratorSum(f) == FAdd(FAdd(f.a0, f.a1), f.a2)
F_denominatorSum(f) == FAdd(FAdd(Scale, f.b1), f.b2)

\* C19: after any sequence of prepare and setParameters calls with cutoff and
\* Q in the valid range, the lowpass has unity DC gain, a0 + a1 + a2 =
\* 1 + b1 + b2, and the highpass has DC gain 0, a0 + a1 + a2 = 0.
C19_DcGain ==
    ValidSet =>
        IF flt.parameters.type = "lowpass"
        THEN Abs(FSub(F_numeratorSum(flt), F_denominatorSum(flt))) <= DcTol
        ELSE Abs(F_numeratorSum(flt)) <= DcTol

\* the filter with its cached previous values forgotten: the next
\* setCoefficients() computes k, k2 and n anew
F_forget(f) == [f EXCEPT !.prevCutoff = NaN, !.prevSampleRate = -1, !.prevQ = NaN]

\* C21: after any sequence of prepare and setParameters calls whose last
\* setParameters had enabled = true, the coefficients a0, a1, a2, b1, b2 are
\* those computed from scratch from the current cutoff, Q, type and sample
\* rate.
C21_CoefficientsCurrent ==
    (lastSet.op = "setParameters" /\ lastSet.parameters.enabled) =>
        F_coefficients(flt) = F_coefficients(F_setCoefficients(F_forget(flt)))

\* the step is a call of setParameters
SetParametersStep == calls' = calls + 1 /\ call'.op = "setParameters"

\* C22: a setParameters call with the cutoff and the sample rate equal to the
\* cached previous values leaves k and k2 unchanged, and a call with Q equal
\* to the cached previous Q leaves n unchanged.
C22_CoefficientCaching ==
    [][SetParametersStep =>
          /\ call'.sameK => (flt'.k = flt.k /\ flt'.k2 = flt.k2)
          /\ ~call'.fresh => flt'.n = flt.n]_vars

\* an enabled setParameters call repeated the cached cutoff, Q and sample rate
\* of a filter whose k and n had been computed
C22_Witness ==
    /\ call.op = "setParameters" /\ call.parameters.enabled
    /\ call.sameK /\ ~call.fresh
    /\ flt.sampleRate = 44100
    /\ IsFinite(flt.k) /\ flt.k > 0 /\ IsFinite(flt.n) /\ flt.n > 0

----------------------------------------------------------------------------
(* The stand-alone CombFilter: prepare, setParameters and process in any   *)
(* order                                                                   *)

\* The largest number of calls on the stand-alone comb filter in one run.
MaxCombCalls == 6

CombRates == {0, 4, 65536}
CombParameters ==
    {[CF_Parameters EXCEPT !.freq = freq, !.feedback = feedback, !.wet = Scale \div 2] :
        freq \in {2 * Scale, 4 * Scale, 8 * Scale}, feedback \in {0, Scale \div 2}}
    \cup {[CF_Parameters EXCEPT !.freq = 2 * Scale, !.wet = Scale \div 2,
                                !.interpType = "linearInterp"]}
CombInputs == {Scale, -(Scale \div 2)}

CombPrepare(newSampleRate) ==
    /\ ~fault /\ calls < MaxCombCalls
    /\ cmb' = CF_prepare(cmb, newSampleRate)
    /\ pushed' = <<>>
    /\ call' = [op |-> "prepare", newSampleRate |-> newSampleRate]
    /\ lastSet' = [op |-> "none"]
    /\ calls' = calls + 1
    /\ UNCHANGED <<rb, rev, riser, flt, ctl, aud, fault>>

\* pure records that the buffer holds inputs only: the call comes before any
\* sample was processed since prepare, and sets the feedback to 0
CombSetParameters(newParams) ==
    /\ ~fault /\ calls < MaxCombCalls
    /\ cmb' = CF_setParameters(cmb, newParams, 0)
    /\ call' = [op |-> "setParameters", newParams |-> newParams,
                pure |-> pushed = <<>> /\ newParams.feedback = 0]
    /\ lastSet' = call'
    /\ calls' = calls + 1
    /\ UNCHANGED <<rb, pushed, rev, riser, flt, ctl, aud, fault>>

CombProcess(input, g) ==
    /\ ~fault /\ calls < MaxCombCalls
    /\ IF CF_faults(cmb)
       THEN /\ fault' = TRUE
            /\ call' = [op |-> "process", input |-> input]
            /\ UNCHANGED <<cmb, pushed>>
       ELSE /\ cmb' = CF_process(cmb, input, g)
            /\ pushed' = Append(pushed, input)
            /\ call' = [op |-> "process", input |-> input,
                        settled |-> ~SV_isSmoothing(cmb.delay.delayTime),
                        interp |-> CF_interp(cmb),
                        d |-> ToUInt(RB_readOffset(cmb.delay)),
                        frac |-> mod1(RB_readOffset(cmb.delay)),
                        delayed |-> CF_delayed(cmb, g),
                        out |-> CF_output(cmb, input, g)]
            /\ UNCHANGED fault
    /\ calls' = calls + 1
    /\ UNCHANGED <<rb, rev, riser, flt, ctl, aud, lastSet>>

InitComb == Constructed

NextComb ==
    \/ \E sr \in CombRates : CombPrepare(sr)
    \/ \E np \in CombParameters : CombSetParameters(np)
    \/ \E input \in CombInputs, g \in Garbage : CombProcess(input, g)

SpecComb == InitComb /\ [][NextComb]_vars

\* the last call was process on a comb filter prepared, then set once to
\* feedback 0 before any sample, reading at a settled delay of d >= 1 samples:
\* without interpolation, or with an interpolation at a whole number of samples
ZeroFeedbackProcess ==
    /\ call.op = "process" /\ ~fault
    /\ lastSet.op = "setParameters" /\ lastSet.pure
    /\ call.settled /\ call.d >= 1
    /\ (call.interp = "noInterp" \/ call.frac = 0)

\* the input processed d calls before the last one, 0 when there is none
InputBefore(d) == IF Len(pushed) - d >= 1 THEN pushed[Len(pushed) - d] ELSE 0

CapacityCeiling(n, sr) == IF n < 600 * sr THEN n ELSE 600 * sr

\* C15: after prepare(N, R) the capacity is min(N, 600 * R): a request within
\* the ceiling is honoured exactly, never reduced by the wraparound of
\* N * R * 10 in 32 bits.  CombFilter::prepare(R) prepares its delay buffer with
\* N = R, a request within the ceiling for every R.
C15_CapacityCeiling ==
    (call.op = "prepare" /\ ~fault) =>
        cmb.delay.size = CapacityCeiling(call.newSampleRate, call.newSampleRate)

====
